---- MODULE Spec2Model ----
(***************************************************************************)
(* State-machine model of the RAG dashboard's client-side store            *)
(* (useRagStore: fetch / search / realtime subscribe / reset) with the     *)
(* useRag hook and the database tables behind it, of the search route it   *)
(* calls, and of the MCP component validator and renderer                  *)
(* (validateMCPComponent, MCPRenderer).                                    *)
(*                                                                         *)
(* An async store action is split at its await: one step for the part      *)
(* before the await, one step for the continuation that runs when the      *)
(* remote call settles.  Every other handler is one step.                  *)
(***************************************************************************)
EXTENDS Integers, Sequences, FiniteSets, TLC

(***************************************************************************)
(* Bounds of the model.                                                    *)
(***************************************************************************)
MaxRows == 2        \* rows cached in documents and regulations together
MaxInflight == 2    \* remote calls in flight at once
MaxInflightFull == 1 \* the same, where Spec runs them next to the realtime channels
MaxTeardowns == 2   \* subscribe() calls, i.e. teardown closures handed out
MaxNodes == 4       \* nodes of a component tree given to the validator
MaxDepth == 2       \* cards and dialogs nested inside a mounted component
MaxActions == 3     \* entries of a button's actions
MaxFields == 2      \* fields of a form
MaxColumns == 2     \* columns of a data table
MaxTableRows == 2   \* rows of a data table
MaxCalls == 2       \* activations of a mounted button or form
MaxEvents == 2      \* changes of one table published and not yet delivered

(***************************************************************************)
(* Values.                                                                 *)
(***************************************************************************)
Null == "null"                      \* JS null for the string-or-null fields
NoChannel == 0                      \* JS null for a channel handle
Contents == {"a", "b"}
Ids == {1, 2}
Rows == [id : Ids, content : Contents]
Queries == {"", "q1"}
ErrorMessages == {"e1"}             \* messages of remote failures

RECURSIVE SeqsUpTo(_, _)
SeqsUpTo(S, n) ==
    IF n = 0 THEN {<<>>}
    ELSE LET shorter == SeqsUpTo(S, n - 1)
         IN  shorter \cup {Append(s, x) : s \in {t \in shorter : Len(t) = n - 1}, x \in S}

RowLists == SeqsUpTo(Rows, MaxRows)

\* What a select on a table can return: rows with pairwise different ids.
TableRows ==
    {rows \in RowLists : \A j, k \in DOMAIN rows : rows[j].id = rows[k].id => j = k}
ResultLists == {<<>>} \cup {<<r>> : r \in Rows}   \* rows the similarity search ranks

\* A JS value that is a list, null or undefined.
JsList(rows) == [tag |-> "list", rows |-> rows]
JsNull == [tag |-> "null", rows |-> <<>>]
JsUndefined == [tag |-> "undefined", rows |-> <<>>]

\* `data || []`
OrEmpty(v) == IF v.tag = "list" THEN v.rows ELSE <<>>

\* A JS object is a function from its keys; a key it lacks reads as undefined.
Has(object, key) == key \in DOMAIN object

\* Primitive JS values, told apart as typeof tells them apart.
Str(s) == [string |-> s]
Num(n) == [number |-> n]
NullValue == [null |-> TRUE]
Undefined == [undefined |-> TRUE]
IsString(v) == Has(v, "string")

VARIABLES
    documents,          \* store: cached rows of table documents
    regulations,        \* store: cached rows of table regulations
    searchResults,      \* store: a JS value (list or undefined)
    isLoading,
    isSubscribed,
    error,
    lastQuery,
    documentChannel,    \* module-level handle: index into channels, or NoChannel
    regulationChannel,
    channels,           \* every realtime channel created so far: [table, status]
    teardowns,          \* every closure subscribe() returned: [kind, called]
    pending,            \* remote calls in flight, in the order they were issued
    last,               \* the step taken last: [op, flag]
    component,          \* validator: the component tree given to validate
    result,             \* validator: what validate returned
    routeRequest,       \* search route: the request and what its remote calls do
    routeResponse,      \* search route: the HTTP response it answered
    built,              \* factory: the arguments createDataTable was called with
    mounted,            \* renderer: the component given to MCPRenderer
    output,             \* renderer: the element tree it returned
    calls,              \* renderer: the calls of onAction so far, [tool, params]
    defaultPrevented,   \* renderer: the last submit event had preventDefault() called
    remote,             \* database: the rows of each table, newest first
    events              \* realtime: per table, the changes published and not yet delivered

storeVars == <<documents, regulations, searchResults, isLoading, isSubscribed,
               error, lastQuery>>
channelVars == <<documentChannel, regulationChannel, channels>>
validateVars == <<component, result>>
routeVars == <<routeRequest, routeResponse>>
renderVars == <<built, mounted, output, calls, defaultPrevented>>
remoteVars == <<remote, events>>
vars == <<documents, regulations, searchResults, isLoading, isSubscribed, error,
          lastQuery, documentChannel, regulationChannel, channels, teardowns,
          pending, last, component, result, routeRequest, routeResponse, built,
          mounted, output, calls, defaultPrevented, remote, events>>

NoComponent == [type |-> "none", props |-> FALSE, children |-> <<>>]
NoResult == [valid |-> FALSE, errors |-> <<>>]
NoRequest == [variant |-> "none"]
NoResponse == [status |-> 0, body |-> [none |-> TRUE]]
NoOutput == [tag |-> "none"]
NoArguments == [columns |-> <<>>, data |-> <<>>, options |-> [none |-> TRUE]]

\* The search route has handled nothing.
RouteIdle ==
    /\ routeRequest = NoRequest
    /\ routeResponse = NoResponse

\* Nothing is mounted.
RenderIdle ==
    /\ built = NoArguments
    /\ mounted = NoComponent
    /\ output = NoOutput
    /\ calls = <<>>
    /\ defaultPrevented = FALSE

\* The tables are empty and nothing has been published.
Tables == {"documents", "regulations"}
RemoteIdle ==
    /\ remote = [t \in Tables |-> <<>>]
    /\ events = [t \in Tables |-> <<>>]

StoreInit ==
    /\ documents = <<>>
    /\ regulations = <<>>
    /\ searchResults = JsList(<<>>)
    /\ isLoading = FALSE
    /\ isSubscribed = FALSE
    /\ error = Null
    /\ lastQuery = Null
    /\ documentChannel = NoChannel
    /\ regulationChannel = NoChannel
    /\ channels = <<>>
    /\ teardowns = <<>>
    /\ pending = <<>>
    /\ last = [op |-> "init", flag |-> FALSE]

Init ==
    /\ StoreInit
    /\ component = NoComponent
    /\ result = NoResult
    /\ RouteIdle
    /\ RenderIdle
    /\ RemoteIdle

\* A remote call in flight; reply is what the database has answered it with,
\* once it has evaluated the query.
NoReply == [kind |-> "none"]
Request(op, query) == [op |-> op, query |-> query, reply |-> NoReply]

RemoveAt(s, i) == SubSeq(s, 1, i - 1) \o SubSeq(s, i + 1, Len(s))

(***************************************************************************)
(* fetchDocuments / fetchRegulations                                       *)
(***************************************************************************)
\* What the awaited supabase query settles to: {data, error} or a rejection.
QueryOutcomes ==
    {[kind |-> "data", data |-> JsList(rows), message |-> Null] : rows \in TableRows}
    \cup {[kind |-> "data", data |-> JsNull, message |-> Null]}
    \cup {[kind |-> k, data |-> JsNull, message |-> m] :
            k \in {"error", "rejected"}, m \in ErrorMessages}

\* The i-th call in flight has been overtaken: reset() ran in the step before,
\* a later call of the same action is in flight, or the step before completed
\* a later call of the same action successfully.
Superseded(i) ==
    \/ last.op = "reset"
    \/ \E j \in DOMAIN pending : j > i /\ pending[j].op = pending[i].op
    \/ /\ last.op = pending[i].op \o "Settled"
       /\ last.flag
       /\ i < last.index

fetchDocuments ==
    /\ Len(pending) < MaxInflight
    /\ isLoading' = TRUE
    /\ error' = Null
    /\ pending' = Append(pending, Request("fetchDocuments", ""))
    /\ last' = [op |-> "fetchDocuments", flag |-> FALSE]
    /\ UNCHANGED <<documents, regulations, searchResults, isSubscribed, lastQuery,
                   channelVars, teardowns, validateVars,
                   routeVars, renderVars,
                   remoteVars>>

\* Mutant of fetchDocumentsSettled: a failed query also drops the cached list.
fetchDocumentsSettledClearing(i, outcome) ==
    /\ i \in DOMAIN pending
    /\ pending[i].op = "fetchDocuments"
    /\ Len(OrEmpty(outcome.data)) + Len(regulations) <= MaxRows
    /\ pending' = RemoveAt(pending, i)
    /\ documents' = OrEmpty(outcome.data)
    /\ isLoading' = FALSE
    /\ error' = IF outcome.kind = "data" THEN error ELSE outcome.message
    /\ last' = [op |-> "fetchDocumentsSettled", flag |-> outcome.kind = "data",
                index |-> i, stale |-> Superseded(i)]
    /\ UNCHANGED <<regulations, searchResults, isSubscribed, lastQuery,
                   channelVars, teardowns, validateVars,
                   routeVars, renderVars,
                   remoteVars>>

\* Mutant of fetchDocumentsSettled: a request-generation guard drops the
\* response of a call that has been overtaken.
fetchDocumentsSettledLatestOnly(i, outcome) ==
    /\ i \in DOMAIN pending
    /\ pending[i].op = "fetchDocuments"
    /\ Len(OrEmpty(outcome.data)) + Len(regulations) <= MaxRows
    /\ pending' = RemoveAt(pending, i)
    /\ IF Superseded(i)
       THEN UNCHANGED <<documents, isLoading, error>>
       ELSE IF outcome.kind = "data"
            THEN /\ documents' = OrEmpty(outcome.data)
                 /\ isLoading' = FALSE
                 /\ error' = error
            ELSE /\ error' = outcome.message
                 /\ isLoading' = FALSE
                 /\ documents' = documents
    /\ last' = [op |-> "fetchDocumentsSettled", flag |-> outcome.kind = "data",
                index |-> i, stale |-> Superseded(i)]
    /\ UNCHANGED <<regulations, searchResults, isSubscribed, lastQuery,
                   channelVars, teardowns, validateVars,
                   routeVars, renderVars,
                   remoteVars>>

\* Mutant of fetchDocumentsSettled: a successful completion also clears error.
fetchDocumentsSettledClearingError(i, outcome) ==
    /\ i \in DOMAIN pending
    /\ pending[i].op = "fetchDocuments"
    /\ Len(OrEmpty(outcome.data)) + Len(regulations) <= MaxRows
    /\ pending' = RemoveAt(pending, i)
    /\ IF outcome.kind = "data"
       THEN /\ documents' = OrEmpty(outcome.data)
            /\ isLoading' = FALSE
            /\ error' = Null
       ELSE /\ error' = outcome.message
            /\ isLoading' = FALSE
            /\ documents' = documents
    /\ last' = [op |-> "fetchDocumentsSettled", flag |-> outcome.kind = "data",
                index |-> i, stale |-> Superseded(i)]
    /\ UNCHANGED <<regulations, searchResults, isSubscribed, lastQuery,
                   channelVars, teardowns, validateVars,
                   routeVars, renderVars,
                   remoteVars>>

fetchDocumentsSettled(i, outcome) ==
    /\ i \in DOMAIN pending
    /\ pending[i].op = "fetchDocuments"
    /\ Len(OrEmpty(outcome.data)) + Len(regulations) <= MaxRows
    /\ pending' = RemoveAt(pending, i)
    /\ IF outcome.kind = "data"
       THEN /\ documents' = OrEmpty(outcome.data)
            /\ isLoading' = FALSE
            /\ error' = error
       ELSE /\ error' = outcome.message
            /\ isLoading' = FALSE
            /\ documents' = documents
    /\ last' = [op |-> "fetchDocumentsSettled", flag |-> outcome.kind = "data",
                index |-> i, stale |-> Superseded(i)]
    /\ UNCHANGED <<regulations, searchResults, isSubscribed, lastQuery,
                   channelVars, teardowns, validateVars,
                   routeVars, renderVars,
                   remoteVars>>

fetchRegulations ==
    /\ Len(pending) < MaxInflight
    /\ isLoading' = TRUE
    /\ error' = Null
    /\ pending' = Append(pending, Request("fetchRegulations", ""))
    /\ last' = [op |-> "fetchRegulations", flag |-> FALSE]
    /\ UNCHANGED <<documents, regulations, searchResults, isSubscribed, lastQuery,
                   channelVars, teardowns, validateVars,
                   routeVars, renderVars,
                   remoteVars>>

fetchRegulationsSettled(i, outcome) ==
    /\ i \in DOMAIN pending
    /\ pending[i].op = "fetchRegulations"
    /\ Len(OrEmpty(outcome.data)) + Len(documents) <= MaxRows
    /\ pending' = RemoveAt(pending, i)
    /\ IF outcome.kind = "data"
       THEN /\ regulations' = OrEmpty(outcome.data)
            /\ isLoading' = FALSE
            /\ error' = error
       ELSE /\ error' = outcome.message
            /\ isLoading' = FALSE
            /\ regulations' = regulations
    /\ last' = [op |-> "fetchRegulationsSettled", flag |-> outcome.kind = "data",
                index |-> i, stale |-> Superseded(i)]
    /\ UNCHANGED <<documents, searchResults, isSubscribed, lastQuery,
                   channelVars, teardowns, validateVars,
                   routeVars, renderVars,
                   remoteVars>>

(***************************************************************************)
(* The search route (POST /api/rag/search) and searchDocuments             *)
(***************************************************************************)
DefaultLimit == 5
EmbeddingDims == {3}

\* What the embedding service does for generateEmbedding(text).
EmbedOutcomes ==
    {[kind |-> "vector", dim |-> d, message |-> Null] : d \in EmbeddingDims}
    \cup {[kind |-> k, dim |-> 0, message |-> m] :
            k \in {"rejected", "notOk"}, m \in ErrorMessages}
    \cup {[kind |-> "malformed", dim |-> 0, message |-> Null]}

\* What the search_regulations RPC does: rows or null, an error answer, a
\* rejected request, or a 2xx answer whose text is not JSON.
RpcOutcomes ==
    {[kind |-> "data", data |-> JsList(rows), message |-> Null] : rows \in ResultLists}
    \cup {[kind |-> "data", data |-> JsNull, message |-> Null]}
    \cup {[kind |-> k, data |-> JsNull, message |-> m] :
            k \in {"error", "rejected", "unparsable"}, m \in ErrorMessages}

\* generateEmbedding: the vector's dimension, or the message of the Error thrown.
generateEmbedding(embed) ==
    CASE embed.kind = "vector" -> [thrown |-> FALSE, dim |-> embed.dim, message |-> Null]
      [] embed.kind = "notOk" ->
            [thrown |-> TRUE, dim |-> 0, message |-> "Ollama embedding failed: " \o embed.message]
      [] embed.kind = "malformed" ->
            [thrown |-> TRUE, dim |-> 0, message |-> "Ollama returned an unexpected format"]
      [] OTHER -> [thrown |-> TRUE, dim |-> 0, message |-> embed.message]

Response(status, body) == [status |-> status, body |-> body]

\* The request bodies: the query a string, empty, of another type, or missing.
RequestBodies ==
    [query : {Str("q1"), Str(""), Num(7)}, limit : {DefaultLimit}]
    \cup [limit : {DefaultLimit}]

\* `!query || typeof query !== 'string'`
MissingQuery(body) ==
    \/ ~Has(body, "query")
    \/ ~IsString(body.query)
    \/ body.query.string = ""

\* The route handler on the supabase client: the HTTP response to the request
\* body. The client reports a 2xx answer it cannot parse as an error result.
POST(body, embed, rpc) ==
    IF MissingQuery(body)
    THEN Response(400, [error |-> "missing query parameter"])
    ELSE LET embedding == generateEmbedding(embed) IN
         IF embedding.thrown
         THEN Response(500, [error |-> embedding.message])
         ELSE CASE rpc.kind \in {"error", "unparsable"} ->
                     Response(500, [error |-> "database search failed: " \o rpc.message])
                [] rpc.kind = "rejected" -> Response(500, [error |-> rpc.message])
                [] OTHER ->
                     Response(200, [success |-> TRUE,
                                    data |-> OrEmpty(rpc.data),
                                    query |-> body.query.string,
                                    embedding_dimension |-> embedding.dim])

\* The variant of the route handler that calls the RPC over REST with fetch.
POSTRest(body, embed, rpc) ==
    IF MissingQuery(body)
    THEN Response(400, [error |-> "missing query parameter"])
    ELSE LET embedding == generateEmbedding(embed) IN
         IF embedding.thrown
         THEN Response(500, [error |-> embedding.message])
         ELSE CASE rpc.kind = "error" ->
                     Response(500, [error |-> "database search failed: " \o rpc.message])
                [] rpc.kind = "rejected" -> Response(500, [error |-> rpc.message])
                [] rpc.kind = "unparsable" ->
                     Response(200, [success |-> FALSE,
                                    error |-> "Invalid JSON response",
                                    raw |-> rpc.message])
                [] OTHER ->
                     Response(200, [success |-> TRUE,
                                    data |-> OrEmpty(rpc.data),
                                    query |-> body.query.string,
                                    embedding_dimension |-> embedding.dim])

Variants == {"client", "rest"}

\* The handler deployed at /api/rag/search.
Route(variant, body, embed, rpc) ==
    IF variant = "rest" THEN POSTRest(body, embed, rpc) ELSE POST(body, embed, rpc)

\* A request reaches the route, with what the services behind it will do.
receiveSearch ==
    /\ routeRequest = NoRequest
    /\ \E v \in Variants, b \in RequestBodies, e \in EmbedOutcomes, r \in RpcOutcomes :
          routeRequest' = [variant |-> v, body |-> b, embed |-> e, rpc |-> r]
    /\ last' = [op |-> "receiveSearch", flag |-> FALSE]
    /\ UNCHANGED <<storeVars, channelVars, teardowns, pending, validateVars,
                   routeResponse, renderVars,
                   remoteVars>>

\* The route answers the request.
answerSearch ==
    /\ routeRequest # NoRequest
    /\ routeResponse = NoResponse
    /\ routeResponse' = Route(routeRequest.variant, routeRequest.body,
                              routeRequest.embed, routeRequest.rpc)
    /\ last' = [op |-> "answerSearch", flag |-> FALSE]
    /\ UNCHANGED <<storeVars, channelVars, teardowns, pending, validateVars,
                   routeRequest, renderVars,
                   remoteVars>>

\* response.ok
Ok(response) == response.status \in 200..299

\* `const { results } = await response.json()`
Results(body) == IF "results" \in DOMAIN body THEN JsList(body.results) ELSE JsUndefined

\* How the store's fetch('/api/rag/search') settles: rejected, answered by the
\* route, or answered 2xx with a body that response.json() cannot parse.
Transports ==
    {[kind |-> k, message |-> m, variant |-> "client", embed |-> e, rpc |-> r] :
        k \in {"rejected", "unparsable"},
        m \in ErrorMessages,
        e \in {[kind |-> "malformed", dim |-> 0, message |-> Null]},
        r \in {[kind |-> "data", data |-> JsNull, message |-> Null]}}
    \cup {[kind |-> "answered", message |-> Null, variant |-> v, embed |-> e, rpc |-> r] :
            v \in Variants, e \in EmbedOutcomes, r \in RpcOutcomes}

Answer(request, transport) ==
    IF transport.kind = "unparsable"
    THEN Response(200, [unparsable |-> TRUE])
    ELSE Route(transport.variant, [query |-> Str(request.query), limit |-> DefaultLimit],
               transport.embed, transport.rpc)

searchDocuments(query) ==
    /\ Len(pending) < MaxInflight
    /\ isLoading' = TRUE
    /\ error' = Null
    /\ lastQuery' = query
    /\ pending' = Append(pending, Request("searchDocuments", query))
    /\ last' = [op |-> "searchDocuments", flag |-> FALSE]
    /\ UNCHANGED <<documents, regulations, searchResults, isSubscribed,
                   channelVars, teardowns, validateVars,
                   routeVars, renderVars,
                   remoteVars>>

searchDocumentsSettled(i, transport) ==
    /\ i \in DOMAIN pending
    /\ pending[i].op = "searchDocuments"
    /\ pending' = RemoveAt(pending, i)
    /\ LET response == Answer(pending[i], transport) IN
       CASE transport.kind \in {"rejected", "unparsable"} ->
              /\ error' = transport.message
              /\ isLoading' = FALSE
              /\ searchResults' = searchResults
              /\ last' = [op |-> "searchDocumentsSettled", flag |-> FALSE,
                          index |-> i, stale |-> Superseded(i)]
         [] transport.kind = "answered" /\ ~Ok(response) ->
              /\ error' = "search failed"
              /\ isLoading' = FALSE
              /\ searchResults' = searchResults
              /\ last' = [op |-> "searchDocumentsSettled", flag |-> FALSE,
                          index |-> i, stale |-> Superseded(i)]
         [] OTHER ->
              /\ searchResults' = Results(response.body)
              /\ isLoading' = FALSE
              /\ error' = error
              /\ last' = [op |-> "searchDocumentsSettled", flag |-> TRUE,
                          index |-> i, stale |-> Superseded(i)]
    /\ UNCHANGED <<documents, regulations, isSubscribed, lastQuery,
                   channelVars, teardowns, validateVars,
                   routeVars, renderVars,
                   remoteVars>>

(***************************************************************************)
(* subscribe, its realtime handlers and the teardown it returns            *)
(***************************************************************************)
Channel(table) == [table |-> table, status |-> "subscribed"]
Teardown(kind) == [kind |-> kind, called |-> FALSE]

\* channel?.unsubscribe() on the two held handles
Unsubscribed(chs, held) ==
    [c \in DOMAIN chs |->
        IF c \in held THEN [chs[c] EXCEPT !.status = "closed"] ELSE chs[c]]

Live(table) ==
    \E c \in DOMAIN channels :
        channels[c].table = table /\ channels[c].status = "subscribed"

\* Mutant of subscribe: no isSubscribed guard.
subscribeUnguarded ==
    /\ Len(teardowns) < MaxTeardowns
    /\ channels' = channels \o <<Channel("documents"), Channel("regulations")>>
    /\ documentChannel' = Len(channels) + 1
    /\ regulationChannel' = Len(channels) + 2
    /\ isSubscribed' = TRUE
    /\ teardowns' = Append(teardowns, Teardown(IF isSubscribed THEN "noop" ELSE "cleanup"))
    /\ last' = [op |-> "subscribe", flag |-> isSubscribed]
    /\ UNCHANGED <<documents, regulations, searchResults, isLoading, error, lastQuery,
                   pending, validateVars,
                   routeVars, renderVars,
                   remoteVars>>

subscribe ==
    /\ Len(teardowns) < MaxTeardowns
    /\ IF isSubscribed
       THEN /\ teardowns' = Append(teardowns, Teardown("noop"))
            /\ UNCHANGED <<isSubscribed, channelVars>>
       ELSE /\ channels' = channels \o <<Channel("documents"), Channel("regulations")>>
            /\ documentChannel' = Len(channels) + 1
            /\ regulationChannel' = Len(channels) + 2
            /\ isSubscribed' = TRUE
            /\ teardowns' = Append(teardowns, Teardown("cleanup"))
    /\ last' = [op |-> "subscribe", flag |-> isSubscribed]
    /\ UNCHANGED <<documents, regulations, searchResults, isLoading, error, lastQuery,
                   pending, validateVars,
                   routeVars, renderVars,
                   remoteVars>>

\* Calling the closure that the t-th subscribe() returned.
teardown(t) ==
    /\ t \in DOMAIN teardowns
    /\ teardowns' = [teardowns EXCEPT ![t].called = TRUE]
    /\ IF teardowns[t].kind = "noop"
       THEN UNCHANGED <<isSubscribed, channelVars>>
       ELSE /\ channels' = Unsubscribed(channels, {documentChannel, regulationChannel})
            /\ documentChannel' = NoChannel
            /\ regulationChannel' = NoChannel
            /\ isSubscribed' = FALSE
    /\ last' = [op |-> "teardown", flag |-> teardowns[t].called]
    /\ UNCHANGED <<documents, regulations, searchResults, isLoading, error, lastQuery,
                   pending, validateVars,
                   routeVars, renderVars,
                   remoteVars>>

\* A postgres_changes payload.
Payloads ==
    {[eventType |-> "INSERT", new |-> r, old |-> r] : r \in Rows}
    \cup {[eventType |-> "UPDATE", new |-> r, old |-> r] : r \in Rows}
    \cup {[eventType |-> "DELETE", new |-> r, old |-> r] : r \in Rows}

\* Mutant of MapReplace: an upsert, the changed row is added when no entry has its id.
MapUpsert(list, changed) ==
    IF \E k \in DOMAIN list : list[k].id = changed.id
    THEN [k \in DOMAIN list |-> IF list[k].id = changed.id THEN changed ELSE list[k]]
    ELSE Append(list, changed)

\* list.map((row) => row.id === changed.id ? changed : row)
MapReplace(list, changed) ==
    [k \in DOMAIN list |-> IF list[k].id = changed.id THEN changed ELSE list[k]]

\* Mutant of FilterOut: only the first entry with the id is removed.
RECURSIVE FilterFirst(_, _)
FilterFirst(list, removed) ==
    IF list = <<>> THEN <<>>
    ELSE IF Head(list).id # removed.id
         THEN <<Head(list)>> \o FilterFirst(Tail(list), removed)
         ELSE Tail(list)

\* list.filter((row) => row.id !== removed.id)
RECURSIVE FilterOut(_, _)
FilterOut(list, removed) ==
    IF list = <<>> THEN <<>>
    ELSE IF Head(list).id # removed.id
         THEN <<Head(list)>> \o FilterOut(Tail(list), removed)
         ELSE FilterOut(Tail(list), removed)

\* Mutant of Reduce: an inserted row is put at the end of the list.
ReduceAppending(list, payload) ==
    CASE payload.eventType = "INSERT" -> Append(list, payload.new)
      [] payload.eventType = "UPDATE" -> MapReplace(list, payload.new)
      [] payload.eventType = "DELETE" -> FilterOut(list, payload.old)
      [] OTHER -> list

\* The reducer both channel callbacks pass to set(): the table's next list.
Reduce(list, payload) ==
    CASE payload.eventType = "INSERT" -> <<payload.new>> \o list
      [] payload.eventType = "UPDATE" -> MapReplace(list, payload.new)
      [] payload.eventType = "DELETE" -> FilterOut(list, payload.old)
      [] OTHER -> list

HasId(list, id) == \E k \in DOMAIN list : list[k].id = id

PayloadId(payload) ==
    IF payload.eventType = "DELETE" THEN payload.old.id ELSE payload.new.id

onDocumentsChange(payload) ==
    /\ Live("documents")
    /\ payload.eventType = "INSERT" => Len(documents) + Len(regulations) < MaxRows
    /\ documents' = Reduce(documents, payload)
    /\ last' = [op |-> "documents" \o payload.eventType,
                flag |-> HasId(documents, PayloadId(payload))]
    /\ UNCHANGED <<regulations, searchResults, isLoading, isSubscribed, error,
                   lastQuery, channelVars, teardowns, pending, validateVars,
                   routeVars, renderVars,
                   remote>>

onRegulationsChange(payload) ==
    /\ Live("regulations")
    /\ payload.eventType = "INSERT" => Len(documents) + Len(regulations) < MaxRows
    /\ regulations' = Reduce(regulations, payload)
    /\ last' = [op |-> "regulations" \o payload.eventType,
                flag |-> HasId(regulations, PayloadId(payload))]
    /\ UNCHANGED <<documents, searchResults, isLoading, isSubscribed, error,
                   lastQuery, channelVars, teardowns, pending, validateVars,
                   routeVars, renderVars,
                   remote>>

(***************************************************************************)
(* reset                                                                   *)
(***************************************************************************)
\* Mutant of reset: the error of a failed call survives.
resetKeepingError ==
    /\ documents' = <<>>
    /\ regulations' = <<>>
    /\ searchResults' = JsList(<<>>)
    /\ isLoading' = FALSE
    /\ lastQuery' = Null
    /\ last' = [op |-> "reset", flag |-> error # Null /\ documents # <<>>]
    /\ UNCHANGED <<error, isSubscribed, channelVars, teardowns, pending, validateVars,
                   routeVars, renderVars,
                   remoteVars>>

\* Mutant of reset: the subscription flag is cleared too.
resetUnsubscribing ==
    /\ documents' = <<>>
    /\ regulations' = <<>>
    /\ searchResults' = JsList(<<>>)
    /\ isLoading' = FALSE
    /\ error' = Null
    /\ lastQuery' = Null
    /\ isSubscribed' = FALSE
    /\ last' = [op |-> "reset", flag |-> error # Null /\ documents # <<>>]
    /\ UNCHANGED <<channelVars, teardowns, pending, validateVars,
                   routeVars, renderVars,
                   remoteVars>>

reset ==
    /\ documents' = <<>>
    /\ regulations' = <<>>
    /\ searchResults' = JsList(<<>>)
    /\ isLoading' = FALSE
    /\ error' = Null
    /\ lastQuery' = Null
    /\ last' = [op |-> "reset", flag |-> error # Null /\ documents # <<>>]
    /\ UNCHANGED <<isSubscribed, channelVars, teardowns, pending, validateVars,
                   routeVars, renderVars,
                   remoteVars>>

(***************************************************************************)
(* The database behind the two tables and its realtime publication         *)
(***************************************************************************)
FetchLimit == 100

TableOf(op) == IF op = "fetchDocuments" THEN "documents" ELSE "regulations"

\* .order('created_at', { ascending: false }).limit(100) on rows kept newest first
Select(rows) == SubSeq(rows, 1, IF Len(rows) <= FetchLimit THEN Len(rows) ELSE FetchLimit)

\* The answers of a select that fails.
SelectFailures ==
    {[kind |-> k, data |-> JsNull, message |-> m] :
        k \in {"error", "rejected"}, m \in ErrorMessages}

Change(eventType, row) == [eventType |-> eventType, new |-> row, old |-> row]

\* A change reaches the subscribers of the table's channel, if there are any.
Publish(table, payload) ==
    IF Live(table) THEN [events EXCEPT ![table] = Append(@, payload)] ELSE events

\* The database evaluates the query of the i-th call in flight.
remoteSelect(i, failure) ==
    /\ i \in DOMAIN pending
    /\ pending[i].op \in {"fetchDocuments", "fetchRegulations"}
    /\ pending[i].reply = NoReply
    /\ pending' =
          [pending EXCEPT ![i].reply =
              IF failure = NoReply
              THEN [kind |-> "data",
                    data |-> JsList(Select(remote[TableOf(pending[i].op)])),
                    message |-> Null]
              ELSE failure]
    /\ last' = [op |-> "remoteSelect", flag |-> failure = NoReply]
    /\ UNCHANGED <<storeVars, channelVars, teardowns, validateVars, routeVars,
                   renderVars, remoteVars>>

\* Another client inserts a row with a fresh id.
remoteInsert(table, row) ==
    /\ ~HasId(remote[table], row.id)
    /\ Len(events[table]) < MaxEvents
    /\ remote' = [remote EXCEPT ![table] = <<row>> \o @]
    /\ events' = Publish(table, Change("INSERT", row))
    /\ last' = [op |-> "remoteInsert", flag |-> Live(table)]
    /\ UNCHANGED <<storeVars, channelVars, teardowns, pending, validateVars,
                   routeVars, renderVars>>

\* Another client changes the content of a row.
remoteUpdate(table, row) ==
    /\ \E k \in DOMAIN remote[table] :
          remote[table][k].id = row.id /\ remote[table][k] # row
    /\ Len(events[table]) < MaxEvents
    /\ remote' = [remote EXCEPT ![table] =
                    [k \in DOMAIN @ |-> IF @[k].id = row.id THEN row ELSE @[k]]]
    /\ events' = Publish(table, Change("UPDATE", row))
    /\ last' = [op |-> "remoteUpdate", flag |-> Live(table)]
    /\ UNCHANGED <<storeVars, channelVars, teardowns, pending, validateVars,
                   routeVars, renderVars>>

\* Another client deletes a row.
remoteDelete(table, row) ==
    /\ \E k \in DOMAIN remote[table] : remote[table][k] = row
    /\ Len(events[table]) < MaxEvents
    /\ remote' = [remote EXCEPT ![table] = SelectSeq(@, LAMBDA r : r.id # row.id)]
    /\ events' = Publish(table, Change("DELETE", row))
    /\ last' = [op |-> "remoteDelete", flag |-> Live(table)]
    /\ UNCHANGED <<storeVars, channelVars, teardowns, pending, validateVars,
                   routeVars, renderVars>>

\* The channel delivers the oldest undelivered change to its callback.
deliverDocuments ==
    /\ events.documents # <<>>
    /\ onDocumentsChange(Head(events.documents))
    /\ events' = [events EXCEPT !.documents = Tail(@)]

\* The awaited query of the i-th call settles to what the database answered.
fetchDocumentsAnswered(i) ==
    /\ i \in DOMAIN pending
    /\ pending[i].reply # NoReply
    /\ fetchDocumentsSettled(i, pending[i].reply)

(***************************************************************************)
(* useRag: the hook's effect and its cleanup                               *)
(***************************************************************************)
\* A component using useRag() mounts: the effect calls subscribe(), keeps the
\* teardown it returns, and starts fetchDocuments() and fetchRegulations(),
\* each running up to its await.
useRagMount ==
    /\ Len(teardowns) < MaxTeardowns
    /\ IF isSubscribed
       THEN /\ teardowns' = Append(teardowns, Teardown("noop"))
            /\ UNCHANGED <<isSubscribed, channelVars>>
       ELSE /\ channels' = channels \o <<Channel("documents"), Channel("regulations")>>
            /\ documentChannel' = Len(channels) + 1
            /\ regulationChannel' = Len(channels) + 2
            /\ isSubscribed' = TRUE
            /\ teardowns' = Append(teardowns, Teardown("cleanup"))
    /\ isLoading' = TRUE
    /\ error' = Null
    /\ pending' = pending \o <<Request("fetchDocuments", ""),
                               Request("fetchRegulations", "")>>
    /\ last' = [op |-> "useRagMount", flag |-> isSubscribed]
    /\ UNCHANGED <<documents, regulations, searchResults, lastQuery, validateVars,
                   routeVars, renderVars, remoteVars>>

\* The component whose effect ran t-th unmounts: the effect's cleanup calls
\* the teardown it kept, once.
useRagUnmount(t) ==
    /\ t \in DOMAIN teardowns
    /\ ~teardowns[t].called
    /\ teardown(t)

\* The consumers mounted now, each named by the index of its teardown.
Mounted == {t \in DOMAIN teardowns : ~teardowns[t].called}

(***************************************************************************)
(* validateMCPComponent                                                    *)
(***************************************************************************)
\* A component: its type, whether props is present (truthy), its children
\* (absent and empty children are the same to the validator).
Kinds == {"button", "toast", "widget"}
Labels == [type : Kinds, props : BOOLEAN]

\* The trees of n nodes, given forests[j + 1] = the child lists of j nodes in all.
Trees(forests, n) == [type : Kinds, props : BOOLEAN, children : forests[n]]

\* The child lists of m >= 1 nodes in all: a first child of k nodes, then a
\* list of m - k nodes.
Forests(forests, m) ==
    UNION {{<<t>> \o f : t \in Trees(forests, k), f \in forests[m - k + 1]} : k \in 1..m}

\* forests[j + 1] for j = 0..MaxNodes - 1, built size by size.
RECURSIVE ForestsBySize(_, _)
ForestsBySize(forests, m) ==
    IF m >= MaxNodes THEN forests
    ELSE ForestsBySize(Append(forests, Forests(forests, m)), m + 1)

ChildLists == ForestsBySize(<<{<<>>}>>, 1)

validTypes ==
    <<"button", "card", "data-table", "dialog", "form", "input", "chart", "alert",
      "badge", "toast">>

\* array.includes(x)
Includes(array, x) == \E k \in DOMAIN array : array[k] = x

InvalidType(type) == "invalid component type: " \o type
MissingProps == "missing props"

RECURSIVE validateChildrenFirst(_)
RECURSIVE childErrorsAfter(_)
\* Mutant of validateMCPComponent: the children are validated before the node.
validateChildrenFirst(c) ==
    LET typeErrors == IF ~Includes(validTypes, c.type) THEN <<InvalidType(c.type)>> ELSE <<>>
        propsErrors == IF ~c.props THEN <<MissingProps>> ELSE <<>>
        errors == childErrorsAfter(c.children) \o typeErrors \o propsErrors
    IN  [valid |-> Len(errors) = 0, errors |-> errors]
childErrorsAfter(children) ==
    IF children = <<>> THEN <<>>
    ELSE validateChildrenFirst(Head(children)).errors \o childErrorsAfter(Tail(children))

RECURSIVE validateMCPComponent(_)
RECURSIVE childErrors(_)
RECURSIVE childErrorsFirstOnly(_)
\* Mutant of childErrors: the loop stops after the first child.
childErrorsFirstOnly(children) ==
    IF children = <<>> THEN <<>>
    ELSE validateMCPComponent(Head(children)).errors

\* for (const child of component.children) errors.push(...validate(child).errors)
childErrors(children) ==
    IF children = <<>> THEN <<>>
    ELSE validateMCPComponent(Head(children)).errors \o childErrors(Tail(children))

validateMCPComponent(c) ==
    LET typeErrors == IF ~Includes(validTypes, c.type) THEN <<InvalidType(c.type)>> ELSE <<>>
        propsErrors == IF ~c.props THEN <<MissingProps>> ELSE <<>>
        errors == typeErrors \o propsErrors \o childErrors(c.children)
    IN  [valid |-> Len(errors) = 0, errors |-> errors]

\* A caller validating the component it was given.
validate ==
    /\ last.op # "validate"
    /\ result' = validateMCPComponent(component)
    /\ last' = [op |-> "validate", flag |-> FALSE]
    /\ UNCHANGED <<storeVars, channelVars, teardowns, pending, component,
                   routeVars, renderVars,
                   remoteVars>>

(***************************************************************************)
(* MCPRenderer, its widgets and the factory helpers                        *)
(***************************************************************************)
Get(object, key) == IF Has(object, key) THEN object[key] ELSE Undefined

\* `v ?? fallback`
Coalesce(v, fallback) == IF v = NullValue \/ v = Undefined THEN fallback ELSE v

Digits == <<"0", "1", "2", "3", "4", "5", "6", "7", "8", "9">>

RECURSIVE ToDecimal(_)
ToDecimal(n) ==
    IF n < 10 THEN Digits[n + 1] ELSE ToDecimal(n \div 10) \o Digits[(n % 10) + 1]

\* String(v) for a string or a non-negative integer
String(v) == IF IsString(v) THEN v.string ELSE ToDecimal(v.number)

\* The action entries a component may carry.
Events == {"click", "submit", "change"}
Tools == {"t1", "t2"}
ParamObjects == {[a |-> Str("1")], [a |-> Str("2")]}
Actions == [event : Events, tool : Tools, params : ParamObjects]
ActionLists == SeqsUpTo(Actions, MaxActions)

\* The kinds a component can name: the ten of ShadcnComponentType and one more.
AllKinds ==
    {"button", "card", "data-table", "dialog", "form", "input", "chart", "alert",
     "badge", "toast", "widget"}

\* Props that have none of the keys a widget reads besides title.
PlainProps == [title |-> "t"]
PlainComponents == [type : AllKinds, props : {PlainProps}]

Buttons ==
    [type : {"button"}, props : {[text |-> "ok"]}]
    \cup [type : {"button"}, props : {[text |-> "ok"]}, actions : ActionLists]

\* Components a card or a dialog is given as content, footer or trigger.
Texts == {Str("hello")}
NestedLeaves ==
    {[type |-> "button", props |-> [text |-> "ok"]]}
    \cup [type : {"toast", "widget", "dialog"}, props : {PlainProps}]

Cards(contents) ==
    [type : {"card"}, props : [title : {"t"}, content : contents \cup Texts]]
    \cup [type : {"card"},
          props : [title : {"t"},
                   content : contents \cup Texts,
                   footer : NestedLeaves \cup Texts]]

Dialogs(contents) ==
    [type : {"dialog"}, props : [title : {"t"}, trigger : NestedLeaves, content : contents]]

\* The components nested at most d deep.
RECURSIVE Nested(_)
Nested(d) ==
    IF d = 0 THEN NestedLeaves
    ELSE NestedLeaves \cup Cards(Nested(d - 1)) \cup Dialogs(Nested(d - 1))

\* Forms: fields by name, with or without an onSubmit action.
FieldNames == {"x", "y"}
Fields == [name : FieldNames, label : {"l"}, type : {"text"}]
FieldLists == SeqsUpTo(Fields, MaxFields)
SubmitParams ==
    {[a |-> Str("1")],
     [a |-> Str("1"), formData |-> Str("ignored")],
     [formData |-> Str("ignored")]}
SubmitActions == [event : {"submit"}, tool : Tools, params : SubmitParams]
Forms ==
    [type : {"form"}, props : [fields : FieldLists]]
    \cup [type : {"form"}, props : [fields : FieldLists, onSubmit : SubmitActions]]

\* What a user has typed into the inputs of a form, one value per field.
FieldValues == {"", "v"}
TypedValues == UNION {[1..n -> FieldValues] : n \in 0..MaxFields}

\* createDataTable's arguments: columns, data rows and options.
ColumnKeys == {"id", "name"}
Columns == {[key |-> "id", header |-> "ID"], [key |-> "name", header |-> "Name"]}
ColumnLists == SeqsUpTo(Columns, MaxColumns)
Cells == {Str("a"), Num(0), NullValue}
Records == UNION {[keys -> Cells] : keys \in SUBSET ColumnKeys}
DataLists == SeqsUpTo(Records, MaxTableRows)
NoOptions == <<>>
TableOptions == {NoOptions, [pageSize |-> 1]}

DefaultPageSize == 10

createMCPComponent(type, props, options) ==
    LET base == [type |-> type, props |-> props]
        kept == {k \in {"variant", "children", "actions"} : Has(options, k)}
    IN  [k \in {"type", "props"} \cup kept |-> IF k \in kept THEN options[k] ELSE base[k]]

\* The keys of options that createDataTable copies or defaults.
createDataTable(columns, data, options) ==
    LET defaults == [columns |-> columns,
                     data |-> data,
                     pagination |-> IF Has(options, "pagination")
                                    THEN options.pagination ELSE TRUE,
                     pageSize |-> IF Has(options, "pageSize")
                                  THEN options.pageSize ELSE DefaultPageSize,
                     searchable |-> IF Has(options, "searchable")
                                    THEN options.searchable ELSE FALSE]
        keys == DOMAIN defaults
                  \cup (IF Has(options, "searchColumn") THEN {"searchColumn"} ELSE {})
    IN  createMCPComponent(
            "data-table",
            [k \in keys |-> IF k = "searchColumn" THEN options.searchColumn ELSE defaults[k]],
            NoOptions)

\* What a render produces: an element, or the exception it threw.
Thrown == [tag |-> "thrown"]
NoElement == [tag |-> "nothing"]
Placeholder(type) ==
    [tag |-> "div", className |-> "text-red-500",
     text |-> "unknown component type: " \o type]

MCPButton(c) ==
    [tag |-> "Button", text |-> IF Has(c.props, "text") THEN c.props.text ELSE ""]

MCPInput(c) ==
    [tag |-> "Input", type |-> IF Has(c.props, "type") THEN c.props.type ELSE "text"]

\* Mutant of MCPDataTable: only the first pageSize rows are rendered.
MCPDataTablePaged(c) ==
    IF ~Has(c.props, "columns") \/ ~Has(c.props, "data") THEN Thrown
    ELSE LET columns == c.props.columns
             data == c.props.data
             shown == IF Len(data) <= c.props.pageSize THEN Len(data) ELSE c.props.pageSize
         IN  [tag |-> "Table",
              head |-> [j \in DOMAIN columns |-> columns[j].header],
              body |-> [i \in 1..shown |->
                          [j \in DOMAIN columns |->
                              String(Coalesce(Get(data[i], columns[j].key), Str("")))]]]

\* props.columns.map / props.data.map throw on a missing list.
MCPDataTable(c) ==
    IF ~Has(c.props, "columns") \/ ~Has(c.props, "data") THEN Thrown
    ELSE LET columns == c.props.columns
             data == c.props.data
         IN  [tag |-> "Table",
              head |-> [j \in DOMAIN columns |-> columns[j].header],
              body |-> [i \in DOMAIN data |->
                          [j \in DOMAIN columns |->
                              String(Coalesce(Get(data[i], columns[j].key), Str("")))]]]

\* props.fields.map throws on a missing list.
MCPForm(c) ==
    IF ~Has(c.props, "fields") THEN Thrown
    ELSE [tag |-> "form",
          inputs |-> [k \in DOMAIN c.props.fields |-> c.props.fields[k].name]]

RECURSIVE MCPRenderer(_)
RECURSIVE MCPCard(_)
RECURSIVE MCPDialog(_)
RECURSIVE MCPRendererThrowing(_)

\* A nested MCPRenderer reads component.type: it throws when given undefined.
MCPCard(c) ==
    IF ~Has(c.props, "content") THEN Thrown
    ELSE LET content == IF IsString(c.props.content)
                        THEN [tag |-> "p", text |-> c.props.content.string]
                        ELSE MCPRenderer(c.props.content)
             footer == IF ~Has(c.props, "footer") THEN NoElement
                       ELSE IF IsString(c.props.footer)
                            THEN [tag |-> "p", text |-> c.props.footer.string]
                            ELSE MCPRenderer(c.props.footer)
         IN  IF content = Thrown \/ footer = Thrown THEN Thrown
             ELSE [tag |-> "Card", title |-> c.props.title,
                   content |-> content, footer |-> footer]

MCPDialog(c) ==
    IF ~Has(c.props, "trigger") \/ ~Has(c.props, "content") THEN Thrown
    ELSE LET trigger == MCPRenderer(c.props.trigger)
             content == MCPRenderer(c.props.content)
         IN  IF trigger = Thrown \/ content = Thrown THEN Thrown
             ELSE [tag |-> "Dialog", title |-> c.props.title,
                   trigger |-> trigger, content |-> content]

\* Mutant of MCPRenderer: the switch has no default branch.
MCPRendererThrowing(c) ==
    CASE c.type = "button" -> MCPButton(c)
      [] c.type = "card" -> MCPCard(c)
      [] c.type = "data-table" -> MCPDataTable(c)
      [] c.type = "dialog" -> MCPDialog(c)
      [] c.type = "input" -> MCPInput(c)
      [] c.type = "form" -> MCPForm(c)
      [] OTHER -> Thrown

MCPRenderer(c) ==
    CASE c.type = "button" -> MCPButton(c)
      [] c.type = "card" -> MCPCard(c)
      [] c.type = "data-table" -> MCPDataTable(c)
      [] c.type = "dialog" -> MCPDialog(c)
      [] c.type = "input" -> MCPInput(c)
      [] c.type = "form" -> MCPForm(c)
      [] OTHER -> Placeholder(c.type)

\* The components a caller hands to the renderer as they are.
Mountable == Nested(MaxDepth) \cup PlainComponents \cup Buttons \cup Forms

\* A caller hands a component to the renderer.
mount ==
    /\ mounted = NoComponent
    /\ mounted' \in Mountable
    /\ last' = [op |-> "mount", flag |-> FALSE]
    /\ UNCHANGED <<storeVars, channelVars, teardowns, pending, validateVars, routeVars,
                   built, output, calls, defaultPrevented,
                   remoteVars>>

\* A caller builds a table with the factory helper and hands it to the renderer.
mountDataTable ==
    /\ mounted = NoComponent
    /\ \E columns \in ColumnLists, data \in DataLists, options \in TableOptions :
          /\ built' = [columns |-> columns, data |-> data, options |-> options]
          /\ mounted' = createDataTable(columns, data, options)
    /\ last' = [op |-> "mountDataTable", flag |-> FALSE]
    /\ UNCHANGED <<storeVars, channelVars, teardowns, pending, validateVars, routeVars,
                   output, calls, defaultPrevented,
                   remoteVars>>

render ==
    /\ mounted # NoComponent
    /\ output = NoOutput
    /\ output' = MCPRenderer(mounted)
    /\ last' = [op |-> "render", flag |-> MCPRenderer(mounted) = Thrown]
    /\ UNCHANGED <<storeVars, channelVars, teardowns, pending, validateVars, routeVars,
                   built, mounted, calls, defaultPrevented,
                   remoteVars>>

\* array.find((a) => a.event === event): the index of the first match, or 0.
FindIndex(actions, event) ==
    IF \E k \in DOMAIN actions : actions[k].event = event
    THEN CHOOSE k \in DOMAIN actions :
            /\ actions[k].event = event
            /\ \A m \in 1..(k - 1) : actions[m].event # event
    ELSE 0

\* Mutant of handleClick: the last click entry is taken.
handleClickLast(c) ==
    IF ~Has(c, "actions") THEN <<>>
    ELSE LET hits == {k \in DOMAIN c.actions : c.actions[k].event = "click"}
         IN  IF hits = {} THEN <<>>
             ELSE LET k == CHOOSE h \in hits : \A m \in hits : m <= h
                  IN  <<[tool |-> c.actions[k].tool, params |-> c.actions[k].params]>>

\* MCPButton.handleClick: the calls of onAction it makes.
handleClick(c) ==
    IF ~Has(c, "actions") THEN <<>>
    ELSE LET k == FindIndex(c.actions, "click")
         IN  IF k = 0 THEN <<>>
             ELSE <<[tool |-> c.actions[k].tool, params |-> c.actions[k].params]>>

\* The user activates the rendered button.
click ==
    /\ output.tag = "Button"
    /\ Len(calls) < MaxCalls
    /\ calls' = calls \o handleClick(mounted)
    /\ last' = [op |-> "click", flag |-> handleClick(mounted) # <<>>]
    /\ UNCHANGED <<storeVars, channelVars, teardowns, pending, validateVars, routeVars,
                   built, mounted, output, defaultPrevented,
                   remoteVars>>

\* new FormData(form).entries(): one [name, value] pair per input, in order.
Entries(fields, values) == [k \in DOMAIN fields |-> <<fields[k].name, values[k]>>]

\* Object.fromEntries: a later pair with the same key wins.
FromEntries(entries) ==
    [n \in {entries[k][1] : k \in DOMAIN entries} |->
        entries[CHOOSE k \in DOMAIN entries :
                    /\ entries[k][1] = n
                    /\ \A m \in DOMAIN entries : entries[m][1] = n => m <= k][2]]

\* {...object, ...extra}
Spread(object, extra) ==
    [k \in DOMAIN object \cup DOMAIN extra |->
        IF k \in DOMAIN extra THEN extra[k] ELSE object[k]]

\* Mutant of handleSubmit: the action's own params are spread last.
handleSubmitParamsLast(c, values) ==
    LET data == FromEntries(Entries(c.props.fields, values))
    IN  IF Has(c.props, "onSubmit")
        THEN <<[tool |-> c.props.onSubmit.tool,
                params |-> Spread([formData |-> data], c.props.onSubmit.params)]>>
        ELSE <<>>

\* MCPForm.handleSubmit: the calls of onAction it makes.
handleSubmit(c, values) ==
    LET data == FromEntries(Entries(c.props.fields, values))
    IN  IF Has(c.props, "onSubmit")
        THEN <<[tool |-> c.props.onSubmit.tool,
                params |-> Spread(c.props.onSubmit.params, [formData |-> data])]>>
        ELSE <<>>

\* The user submits the rendered form with these values in its inputs.
submit(values) ==
    /\ output.tag = "form"
    /\ Len(calls) < MaxCalls
    /\ DOMAIN values = DOMAIN mounted.props.fields
    /\ defaultPrevented' = TRUE
    /\ calls' = calls \o handleSubmit(mounted, values)
    /\ last' = [op |-> "submit", flag |-> Has(mounted.props, "onSubmit")]
    /\ UNCHANGED <<storeVars, channelVars, teardowns, pending, validateVars, routeVars,
                   built, mounted, output,
                   remoteVars>>

\* Components that carry children: a card with a text content and a child list.
Parents ==
    [type : {"card"},
     props : {[title |-> "t", content |-> Str("hello")]},
     children : {<<leaf>> : leaf \in NestedLeaves}]

\* A caller hands a component with children to the renderer.
mountParent ==
    /\ mounted = NoComponent
    /\ mounted' \in Parents
    /\ last' = [op |-> "mountParent", flag |-> FALSE]
    /\ UNCHANGED <<storeVars, channelVars, teardowns, pending, validateVars, routeVars,
                   built, output, calls, defaultPrevented, remoteVars>>

\* What validateMCPComponent reads of a component: its type, whether props is
\* truthy, and its children (none when the key is absent).
RECURSIVE ValidatorView(_)
ValidatorView(c) ==
    [type |-> c.type,
     props |-> Has(c, "props"),
     children |-> IF Has(c, "children")
                  THEN [k \in DOMAIN c.children |-> ValidatorView(c.children[k])]
                  ELSE <<>>]

\* A caller validates the component it is about to render, or has rendered.
validateMounted ==
    /\ mounted # NoComponent
    /\ result = NoResult
    /\ result' = validateMCPComponent(ValidatorView(mounted))
    /\ last' = [op |-> "validateMounted",
                flag |-> validateMCPComponent(ValidatorView(mounted)).valid]
    /\ UNCHANGED <<storeVars, channelVars, teardowns, pending, component, routeVars,
                   renderVars, remoteVars>>

(***************************************************************************)
(* Specifications                                                          *)
(***************************************************************************)
Next ==
    \/ Len(pending) < MaxInflightFull /\ fetchDocuments
    \/ \E i \in 1..MaxInflight, o \in QueryOutcomes : fetchDocumentsSettled(i, o)
    \/ Len(pending) < MaxInflightFull /\ fetchRegulations
    \/ \E i \in 1..MaxInflight, o \in QueryOutcomes : fetchRegulationsSettled(i, o)
    \/ \E q \in Queries : Len(pending) < MaxInflightFull /\ searchDocuments(q)
    \/ \E i \in 1..MaxInflight, t \in Transports : searchDocumentsSettled(i, t)
    \/ subscribe
    \/ \E t \in 1..MaxTeardowns : teardown(t)
    \/ \E p \in Payloads : onDocumentsChange(p) /\ UNCHANGED events
    \/ \E p \in Payloads : onRegulationsChange(p) /\ UNCHANGED events
    \/ reset

Spec == Init /\ [][Next]_vars

\* The store when no remote call is issued: subscription, realtime events, reset.
NextRealtime ==
    \/ subscribe
    \/ \E t \in 1..MaxTeardowns : teardown(t)
    \/ \E p \in Payloads : onDocumentsChange(p) /\ UNCHANGED events
    \/ \E p \in Payloads : onRegulationsChange(p) /\ UNCHANGED events
    \/ reset

SpecRealtime == Init /\ [][NextRealtime]_vars

\* The store when no realtime channel is opened: the remote calls, up to
\* MaxInflight of them overlapping, and reset.
NextRemote ==
    \/ fetchDocuments
    \/ \E i \in 1..MaxInflight, o \in QueryOutcomes : fetchDocumentsSettled(i, o)
    \/ fetchRegulations
    \/ \E i \in 1..MaxInflight, o \in QueryOutcomes : fetchRegulationsSettled(i, o)
    \/ \E q \in Queries : searchDocuments(q)
    \/ \E i \in 1..MaxInflight, t \in Transports : searchDocumentsSettled(i, t)
    \/ reset

SpecRemote == Init /\ [][NextRemote]_vars

\* The two fetch actions, up to MaxInflight calls overlapping, and reset.
NextFetch ==
    \/ fetchDocuments
    \/ \E i \in 1..MaxInflight, o \in QueryOutcomes : fetchDocumentsSettled(i, o)
    \/ fetchRegulations
    \/ \E i \in 1..MaxInflight, o \in QueryOutcomes : fetchRegulationsSettled(i, o)
    \/ reset

SpecFetch == Init /\ [][NextFetch]_vars

\* The store under a live subscription, reconciling its documents cache
\* against the database: fetches answered from the table, and the changes
\* other clients make to it while its channel is live, delivered in the order
\* they were made.
NextSync ==
    \/ subscribe
    \/ Len(pending) < MaxInflightFull /\ fetchDocuments
    \/ \E i \in 1..MaxInflightFull, f \in SelectFailures \cup {NoReply} : remoteSelect(i, f)
    \/ \E i \in 1..MaxInflightFull : fetchDocumentsAnswered(i)
    \/ \E r \in Rows : Live("documents") /\ remoteInsert("documents", r)
    \/ \E r \in Rows : Live("documents") /\ remoteUpdate("documents", r)
    \/ \E r \in Rows : Live("documents") /\ remoteDelete("documents", r)
    \/ deliverDocuments

SpecSync == Init /\ [][NextSync]_vars

\* Components using useRag() against the one store, mounting and unmounting
\* in any order while the fetches their effects started complete.
NextHook ==
    \/ useRagMount
    \/ \E t \in 1..MaxTeardowns : useRagUnmount(t)
    \/ \E i \in DOMAIN pending, o \in QueryOutcomes : fetchDocumentsSettled(i, o)
    \/ \E i \in DOMAIN pending, o \in QueryOutcomes : fetchRegulationsSettled(i, o)

SpecHook == Init /\ [][NextHook]_vars

\* The validator applied to every component tree of at most MaxNodes nodes.
InitValidate ==
    /\ StoreInit
    /\ \E n \in 1..MaxNodes : component \in Trees(ChildLists, n)
    /\ result = NoResult
    /\ RouteIdle
    /\ RenderIdle
    /\ RemoteIdle

NextValidate == validate

SpecValidate == InitValidate /\ [][NextValidate]_vars

\* The renderer applied to a mounted component, and the user acting on it.
NextRender ==
    \/ mount
    \/ mountDataTable
    \/ render
    \/ click
    \/ \E values \in TypedValues : submit(values)

SpecRender == Init /\ [][NextRender]_vars

\* The validator and the renderer applied to the same mounted component.
NextAgree ==
    \/ mount
    \/ mountParent
    \/ validateMounted
    \/ render

SpecAgree == Init /\ [][NextAgree]_vars

\* The search route answering one request.
NextRoute ==
    \/ receiveSearch
    \/ answerSearch

SpecRoute == Init /\ [][NextRoute]_vars

(***************************************************************************)
(* Claims about the store                                                  *)
(***************************************************************************)

\* C1: subscribe() called while isSubscribed is true creates no channel, leaves
\* the two held handles and isSubscribed = TRUE as they are, and the teardown
\* it returns changes neither the store state nor the channels when invoked.
C1_SubscribeWhileSubscribedIsNoOp ==
    [][ /\ (isSubscribed /\ subscribe) =>
            /\ UNCHANGED <<channelVars, storeVars>>
            /\ isSubscribed'
            /\ Len(teardowns') = Len(teardowns) + 1
            /\ teardowns'[Len(teardowns')].kind = "noop"
        /\ \A t \in DOMAIN teardowns :
             (teardowns[t].kind = "noop" /\ teardown(t)) =>
                UNCHANGED <<channelVars, storeVars>>
      ]_vars

\* C1 witness: the teardown of a guarded subscribe() has been invoked and the
\* subscription it did not create is still live.
C1_Witness ==
    /\ last.op = "teardown"
    /\ isSubscribed
    /\ documentChannel # NoChannel
    /\ \E t \in DOMAIN teardowns : teardowns[t].kind = "noop" /\ teardowns[t].called

\* The list a realtime update must leave: same length, the entries with the
\* changed id replaced where they are, nothing inserted.
UpdatePost(before, after, changed) ==
    /\ Len(after) = Len(before)
    /\ \A k \in DOMAIN before :
         after[k] = IF before[k].id = changed.id THEN changed ELSE before[k]
    /\ (~HasId(before, changed.id)) => after = before

\* C2: a realtime update for a table replaces exactly the entries of its list
\* that have the changed record's id, keeping length and positions; with no
\* such entry the list is unchanged and the record is not inserted.
C2_UpdateReplacesInPlace ==
    [][ \A p \in Payloads :
          p.eventType = "UPDATE" =>
            /\ onDocumentsChange(p) => UpdatePost(documents, documents', p.new)
            /\ onRegulationsChange(p) => UpdatePost(regulations, regulations', p.new)
      ]_vars

\* C2 witness: an update for an id that is not cached was delivered to a
\* non-empty documents list.
C2_Witness ==
    /\ last.op = "documentsUPDATE"
    /\ ~last.flag
    /\ Len(documents) >= 1

InsertPost(before, after, new) ==
    /\ Len(after) = Len(before) + 1
    /\ after[1] = new
    /\ \A k \in DOMAIN before : after[k + 1] = before[k]

\* C3: a realtime insert puts the new record at index 0 and keeps every
\* previous entry after it, in the previous order (length grows by one).
C3_InsertPrepends ==
    [][ \A p \in Payloads :
          p.eventType = "INSERT" =>
            /\ onDocumentsChange(p) => InsertPost(documents, documents', p.new)
            /\ onRegulationsChange(p) => InsertPost(regulations, regulations', p.new)
      ]_vars

\* C3 witness: an insert was delivered to a documents list that already held a
\* row with another id.
C3_Witness ==
    /\ last.op = "documentsINSERT"
    /\ Len(documents) >= 2
    /\ documents[1].id # documents[2].id

\* The k-th entry of list that does not have the id, counted from 1.
KeptBefore(list, id, k) == Cardinality({m \in 1..k : list[m].id # id})

DeletePost(before, after, removed) ==
    /\ Len(after) = KeptBefore(before, removed.id, Len(before))
    /\ \A k \in DOMAIN before :
         before[k].id # removed.id => after[KeptBefore(before, removed.id, k)] = before[k]
    /\ (~HasId(before, removed.id)) => after = before

\* C4: a realtime delete removes every entry with the removed record's id and
\* keeps all other entries in their previous order; with no such entry the
\* list is unchanged.
C4_DeleteRemovesById ==
    [][ \A p \in Payloads :
          p.eventType = "DELETE" =>
            /\ onDocumentsChange(p) => DeletePost(documents, documents', p.old)
            /\ onRegulationsChange(p) => DeletePost(regulations, regulations', p.old)
      ]_vars

\* C4 witness: a delete for a cached id was delivered and another row remains.
C4_Witness ==
    /\ last.op = "documentsDELETE"
    /\ last.flag
    /\ Len(documents) >= 1

\* C5: the first call of a teardown returned by subscribe() unsubscribes both
\* channels, clears the held handles and sets isSubscribed = FALSE; every
\* later call of that teardown leaves isSubscribed and the channels unchanged,
\* also after a later subscribe() has established new channels.
C5_TeardownCalledAgainIsNoOp ==
    [][ \A t \in DOMAIN teardowns :
          (teardowns[t].kind = "cleanup" /\ teardown(t)) =>
             IF teardowns[t].called
             THEN UNCHANGED <<isSubscribed, channelVars>>
             ELSE /\ ~isSubscribed'
                  /\ documentChannel' = NoChannel
                  /\ regulationChannel' = NoChannel
                  /\ \A c \in {documentChannel, regulationChannel} \ {NoChannel} :
                        channels'[c].status = "closed"
      ]_vars

\* C6: when the read query of fetchDocuments (fetchRegulations) fails, the
\* continuation sets error to the failure's message and isLoading = FALSE and
\* leaves documents (regulations) as it was.
C6_FailedFetchKeepsList ==
    [][ \A i \in 1..MaxInflight, o \in QueryOutcomes :
          o.kind # "data" =>
            /\ fetchDocumentsSettled(i, o) =>
                 error' = o.message /\ ~isLoading' /\ documents' = documents
            /\ fetchRegulationsSettled(i, o) =>
                 error' = o.message /\ ~isLoading' /\ regulations' = regulations
      ]_vars

\* C6 witness: a fetchDocuments query failed while documents held rows.
C6_Witness ==
    /\ last.op = "fetchDocumentsSettled"
    /\ ~last.flag
    /\ documents # <<>>
    /\ error \in ErrorMessages
    /\ ~isLoading

\* C7: reset() empties documents, regulations and searchResults, sets
\* isLoading = FALSE, error = null and lastQuery = null, and leaves
\* isSubscribed and the held channels as they are, so a live subscription
\* still delivers events into the emptied lists.
C7_ResetClearsAndKeepsSubscription ==
    [][ reset =>
          /\ documents' = <<>>
          /\ regulations' = <<>>
          /\ searchResults' = JsList(<<>>)
          /\ ~isLoading'
          /\ error' = Null
          /\ lastQuery' = Null
          /\ UNCHANGED <<isSubscribed, channelVars>>
          /\ isSubscribed => (ENABLED (\E p \in Payloads : onDocumentsChange(p)))'
          /\ isSubscribed => (ENABLED (\E p \in Payloads : onRegulationsChange(p)))'
      ]_vars

\* C7 witness: reset() ran with an error set and rows cached, under a live
\* subscription.
C7_Witness ==
    /\ last.op = "reset"
    /\ last.flag
    /\ isSubscribed
    /\ documents = <<>>
    /\ error = Null

\* C8: searchDocuments(query) sets isLoading = TRUE, error = null and
\* lastQuery = query, and when the endpoint answers 2xx with
\* {success, data, query, embedding_dimension} the continuation replaces
\* searchResults with the rows in data and sets isLoading = FALSE.
C8_SearchSuccessReplacesResults ==
    [][ /\ \A q \in Queries :
             searchDocuments(q) => isLoading' /\ error' = Null /\ lastQuery' = q
        /\ \A i \in DOMAIN pending, t \in Transports :
             ( /\ t.kind = "answered"
               /\ searchDocumentsSettled(i, t)
               /\ Ok(Answer(pending[i], t)) ) =>
                 /\ searchResults' = JsList(Answer(pending[i], t).body.data)
                 /\ ~isLoading'
      ]_vars

(***************************************************************************)
(* Claims about the validator                                              *)
(***************************************************************************)
ClosedEnumeration ==
    {"button", "card", "data-table", "dialog", "form", "input", "chart", "alert",
     "badge", "toast"}

\* The positions of a tree: the child indices on the way from the root.
RECURSIVE Paths(_)
Paths(c) ==
    {<<>>} \cup UNION {{<<k>> \o p : p \in Paths(c.children[k])} : k \in DOMAIN c.children}

RECURSIVE NodeAt(_, _)
NodeAt(c, path) ==
    IF path = <<>> THEN c ELSE NodeAt(c.children[Head(path)], Tail(path))

\* C9: validate returns valid = (errors is empty), and every node reachable
\* through children whose kind is outside the closed enumeration contributes
\* an error that mentions that kind, so valid is FALSE.
C9_InvalidKindAnywhereIsReported ==
    last.op = "validate" =>
        /\ result.valid = (result.errors = <<>>)
        /\ \A p \in Paths(component) :
             NodeAt(component, p).type \notin ClosedEnumeration =>
                /\ \E k \in DOMAIN result.errors :
                     result.errors[k] = InvalidType(NodeAt(component, p).type)
                /\ ~result.valid

\* C9 witness: a tree whose root and first level are valid and whose
\* second child has a child of a kind outside the enumeration was validated.
C9_Witness ==
    /\ last.op = "validate"
    /\ component.type = "button" /\ component.props
    /\ Len(component.children) = 2
    /\ component.children[1] = [type |-> "toast", props |-> TRUE, children |-> <<>>]
    /\ component.children[2].type = "toast" /\ component.children[2].props
    /\ Len(component.children[2].children) = 1
    /\ component.children[2].children[1].type = "widget"
    /\ ~result.valid

\* Document order: a node before its descendants, siblings left to right.
Before(p, q) ==
    \/ Len(p) < Len(q) /\ SubSeq(q, 1, Len(p)) = p
    \/ \E k \in 1..Len(p) :
         /\ k <= Len(q)
         /\ SubSeq(p, 1, k - 1) = SubSeq(q, 1, k - 1)
         /\ p[k] < q[k]

\* The errors of one node: the kind error before the missing-properties error.
NodeErrors(node) ==
    (IF node.type \in ClosedEnumeration THEN <<>> ELSE <<InvalidType(node.type)>>)
    \o (IF node.props THEN <<>> ELSE <<MissingProps>>)

RECURSIVE InDocumentOrder(_, _)
InDocumentOrder(c, positions) ==
    IF positions = {} THEN <<>>
    ELSE LET first == CHOOSE p \in positions : \A q \in positions \ {p} : Before(p, q)
         IN  NodeErrors(NodeAt(c, first)) \o InDocumentOrder(c, positions \ {first})

\* C10: the errors of validate follow document order: the errors of a node
\* (kind error, then missing-properties error) precede those of its children,
\* and the children's errors appear left to right, each child's whole subtree
\* before the next sibling.
C10_ErrorsInDocumentOrder ==
    last.op = "validate" =>
        result.errors = InDocumentOrder(component, Paths(component))

\* C10 witness: a validated tree in which the root, a grandchild under the
\* first child and the second child each have an error.
C10_Witness ==
    /\ last.op = "validate"
    /\ ~component.props
    /\ Len(component.children) = 2
    /\ Len(component.children[1].children) = 1
    /\ component.children[1].children[1].type = "widget"
    /\ component.children[1].type = "button" /\ component.children[1].props
    /\ ~component.children[2].props
    /\ Len(result.errors) >= 3

(***************************************************************************)
(* Claims about the renderer                                               *)
(***************************************************************************)
\* Structurally valid: the props carry what ComponentPropsMap requires of the
\* kind, and so do the components nested in a card or a dialog.
RECURSIVE WellFormed(_)
WellFormed(c) ==
    CASE c.type = "button" -> Has(c.props, "text")
      [] c.type = "card" ->
            /\ Has(c.props, "content")
            /\ IsString(c.props.content) \/ WellFormed(c.props.content)
            /\ Has(c.props, "footer") =>
                  IsString(c.props.footer) \/ WellFormed(c.props.footer)
      [] c.type = "dialog" ->
            /\ Has(c.props, "trigger") /\ Has(c.props, "content")
            /\ WellFormed(c.props.trigger)
            /\ WellFormed(c.props.content)
      [] c.type = "data-table" -> Has(c.props, "columns") /\ Has(c.props, "data")
      [] c.type = "form" -> Has(c.props, "fields")
      [] OTHER -> TRUE

\* C11: rendering a structurally valid component of any kind, inside or
\* outside the closed enumeration, returns an element and does not throw; a
\* kind outside the enumeration yields the error placeholder that names the
\* kind, at the root and nested as the content of a valid card.
C11_RenderDispatchIsTotal ==
    output # NoOutput =>
        /\ WellFormed(mounted) => output # Thrown
        /\ mounted.type \notin ClosedEnumeration => output = Placeholder(mounted.type)
        /\ ( /\ mounted.type = "card"
             /\ WellFormed(mounted)
             /\ ~IsString(mounted.props.content)
             /\ mounted.props.content.type \notin ClosedEnumeration ) =>
                output.content = Placeholder(mounted.props.content.type)

\* C11 witness: a valid card whose content is a dialog that holds a component
\* of a kind outside the enumeration was rendered, and the placeholder for
\* that kind is in the output.
C11_Witness ==
    /\ output # NoOutput
    /\ mounted.type = "card"
    /\ WellFormed(mounted)
    /\ ~IsString(mounted.props.content)
    /\ mounted.props.content.type = "dialog"
    /\ mounted.props.content.props.content.type = "widget"
    /\ output.content.content = Placeholder("widget")

\* C12: activating the rendered button calls onAction exactly once, with the
\* tool and params of the first entry of actions whose event is click; with
\* actions absent or without a click entry it makes no call.
C12_ClickCallsFirstClickAction ==
    [][ click =>
          LET hits == IF Has(mounted, "actions")
                      THEN {k \in DOMAIN mounted.actions : mounted.actions[k].event = "click"}
                      ELSE {}
          IN  IF hits = {}
              THEN calls' = calls
              ELSE LET first == CHOOSE k \in hits : \A m \in hits : k <= m
                   IN  calls' = Append(calls, [tool |-> mounted.actions[first].tool,
                                               params |-> mounted.actions[first].params])
      ]_vars

\* C12 witness: a button whose first entry is not a click entry and which has
\* two click entries naming different tools and params was activated once.
C12_Witness ==
    /\ last.op = "click"
    /\ Len(calls) = 1
    /\ Len(mounted.actions) = 3
    /\ mounted.actions[1].event = "change"
    /\ mounted.actions[2].event = "click"
    /\ mounted.actions[3].event = "click"
    /\ mounted.actions[2].tool # mounted.actions[3].tool
    /\ mounted.actions[2].params # mounted.actions[3].params
    /\ calls[1].tool = mounted.actions[2].tool

\* C13: submitting the form prevents the default navigation; with an onSubmit
\* action it calls onAction once with onSubmit.tool and with onSubmit.params
\* in which formData is the live field values keyed by field name and every
\* other key is as in onSubmit.params; without onSubmit it makes no call.
C13_SubmitMergesFormDataLast ==
    [][ \A values \in TypedValues :
          submit(values) =>
            /\ defaultPrevented'
            /\ IF ~Has(mounted.props, "onSubmit")
               THEN calls' = calls
               ELSE LET action == mounted.props.onSubmit
                        fields == mounted.props.fields
                        sent == calls'[Len(calls')]
                    IN  /\ Len(calls') = Len(calls) + 1
                        /\ SubSeq(calls', 1, Len(calls)) = calls
                        /\ sent.tool = action.tool
                        /\ DOMAIN sent.params = DOMAIN action.params \cup {"formData"}
                        /\ \A k \in DOMAIN action.params \ {"formData"} :
                              sent.params[k] = action.params[k]
                        /\ DOMAIN sent.params.formData
                              = {fields[k].name : k \in DOMAIN fields}
                        /\ \A k \in DOMAIN fields :
                              (\A m \in DOMAIN fields :
                                  fields[m].name = fields[k].name => m <= k)
                              => sent.params.formData[fields[k].name] = values[k]
      ]_vars

\* C13 witness: a form whose onSubmit.params has a key a and its own formData
\* was submitted with a value typed into its field x.
C13_Witness ==
    /\ last.op = "submit"
    /\ defaultPrevented
    /\ Len(calls) = 1
    /\ mounted.props.onSubmit.params = [a |-> Str("1"), formData |-> Str("ignored")]
    /\ calls[1].params.a = Str("1")
    /\ calls[1].params.formData = [x |-> "v"]

\* The string form of a cell value.
StringForm(v) ==
    CASE v = Str("a") -> "a"
      [] v = Num(0) -> "0"

\* What a cell shows: the string form of the row's value under the key, and
\* the empty string for a value that is null or undefined.
CellText(row, key) ==
    IF ~Has(row, key) THEN ""
    ELSE IF row[key] = NullValue THEN "" ELSE StringForm(row[key])

\* C14: a table built by createDataTable from N columns and M rows renders M
\* body rows in the order of data, each of N cells in the order of columns,
\* cell (i, j) showing the string form of data[i][columns[j].key], the empty
\* string when that value is null or undefined.
C14_DataTableRoundTrip ==
    (output # NoOutput /\ built # NoArguments) =>
        /\ output.tag = "Table"
        /\ Len(output.body) = Len(built.data)
        /\ \A i \in DOMAIN built.data :
              /\ Len(output.body[i]) = Len(built.columns)
              /\ \A j \in DOMAIN built.columns :
                    output.body[i][j] = CellText(built.data[i], built.columns[j].key)

\* C14 witness: a table of two columns and two rows built with pageSize 1,
\* whose first row lacks the key name and whose second row has id 0, was
\* rendered.
C14_Witness ==
    /\ output # NoOutput
    /\ built # NoArguments
    /\ mounted.props.pageSize = 1
    /\ Len(built.data) = 2
    /\ built.columns = <<[key |-> "id", header |-> "ID"], [key |-> "name", header |-> "Name"]>>
    /\ ~Has(built.data[1], "name")
    /\ Has(built.data[2], "id") /\ built.data[2].id = Num(0)
    /\ Len(output.body) = 2
    /\ output.body[1][2] = ""
    /\ output.body[2][1] = "0"

(***************************************************************************)
(* Claims about the search route                                           *)
(***************************************************************************)
\* The request cannot be served: no usable query, no embedding, or no
\* parsable result of the RPC.
FailureOutcome(req) ==
    \/ MissingQuery(req.body)
    \/ req.embed.kind # "vector"
    \/ req.rpc.kind \in {"error", "rejected", "unparsable"}

\* C15: the search endpoint answers every failure outcome (missing or
\* non-string query, failed or malformed embedding, failed RPC, unparsable RPC
\* body) with a non-2xx status and a body that carries an error string, and a
\* 2xx status only with success = true and a data list.
C15_FailuresAreNon2xx ==
    routeResponse # NoResponse =>
        /\ FailureOutcome(routeRequest) =>
              /\ ~Ok(routeResponse)
              /\ Has(routeResponse.body, "error")
        /\ Ok(routeResponse) =>
              /\ Has(routeResponse.body, "success")
              /\ routeResponse.body.success
              /\ Has(routeResponse.body, "data")

(***************************************************************************)
(* Claims about the remote calls of the store                              *)
(***************************************************************************)
\* The search did not succeed: the request was rejected, the body cannot be
\* parsed, the status is not 2xx, or the body does not report success.
SearchFailed(request, transport) ==
    \/ transport.kind \in {"rejected", "unparsable"}
    \/ ~Ok(Answer(request, transport))
    \/ ~Has(Answer(request, transport).body, "success")
    \/ ~Answer(request, transport).body.success

\* C16: whatever way the remote call of fetchDocuments, fetchRegulations or
\* searchDocuments fails (error result, rejected request, non-2xx status,
\* unparsable or malformed body), the action completes with error set to the
\* failure's message and isLoading = FALSE.
C16_FailuresBecomeError ==
    [][ /\ \A i \in DOMAIN pending, o \in QueryOutcomes :
             ( /\ o.kind # "data"
               /\ fetchDocumentsSettled(i, o) \/ fetchRegulationsSettled(i, o) ) =>
                 error' = o.message /\ ~isLoading'
        /\ \A i \in DOMAIN pending, t \in Transports :
             ( /\ searchDocumentsSettled(i, t)
               /\ SearchFailed(pending[i], t) ) =>
                 /\ error' # Null
                 /\ t.kind \in {"rejected", "unparsable"} => error' = t.message
                 /\ ~isLoading'
      ]_vars

\* C17: whenever a fetchDocuments, fetchRegulations or searchDocuments call
\* has started and not completed, isLoading is TRUE.
C17_LoadingWhileInFlight ==
    pending # <<>> => isLoading

\* C18: a successful fetch response that arrives for a call that has been
\* overtaken (by reset(), by a newer call of the same fetch still in flight,
\* or by a newer call of the same fetch that has already completed) still
\* replaces the list with its rows and sets isLoading = FALSE.
C18_StaleResponseStillApplied ==
    [][ \A i \in DOMAIN pending, o \in QueryOutcomes :
          (o.kind = "data" /\ Superseded(i)) =>
            /\ fetchDocumentsSettled(i, o) =>
                  documents' = OrEmpty(o.data) /\ ~isLoading'
            /\ fetchRegulationsSettled(i, o) =>
                  regulations' = OrEmpty(o.data) /\ ~isLoading'
      ]_vars

\* C18 witness: the response of an overtaken fetchDocuments call has put its
\* rows into documents while a newer fetchDocuments call is still in flight.
C18_Witness ==
    /\ last.op = "fetchDocumentsSettled"
    /\ last.flag
    /\ last.stale
    /\ documents # <<>>
    /\ ~isLoading
    /\ \E j \in DOMAIN pending : pending[j].op = "fetchDocuments"

\* C19: a successful completion of fetchDocuments (fetchRegulations) replaces
\* documents (regulations) with exactly the returned rows, the empty list when
\* the query returned no data, sets isLoading = FALSE, and leaves the other
\* two lists, error, lastQuery and isSubscribed unchanged.
C19_FetchSuccessFrame ==
    [][ \A i \in DOMAIN pending, o \in QueryOutcomes :
          o.kind = "data" =>
            /\ fetchDocumentsSettled(i, o) =>
                  /\ documents' = (IF o.data = JsNull THEN <<>> ELSE o.data.rows)
                  /\ ~isLoading'
                  /\ UNCHANGED <<regulations, searchResults, error, lastQuery, isSubscribed>>
            /\ fetchRegulationsSettled(i, o) =>
                  /\ regulations' = (IF o.data = JsNull THEN <<>> ELSE o.data.rows)
                  /\ ~isLoading'
                  /\ UNCHANGED <<documents, searchResults, error, lastQuery, isSubscribed>>
      ]_vars

\* C19 witness: fetchDocuments completed with no data while regulations held
\* a row, an error of an overlapping call was set and a query was recorded.
C19_Witness ==
    /\ last.op = "fetchDocumentsSettled"
    /\ last.flag
    /\ documents = <<>>
    /\ regulations # <<>>
    /\ error \in ErrorMessages
    /\ lastQuery = "q1"
    /\ ~isLoading

(***************************************************************************)
(* Claims about the channel handles                                        *)
(***************************************************************************)
LiveChannels(table) ==
    {c \in DOMAIN channels : channels[c].table = table /\ channels[c].status = "subscribed"}

\* C20: after any sequence of subscribe(), teardown and reset() calls,
\* isSubscribed is TRUE exactly when both channel handles are held, and each
\* tracked table has at most one live channel.
C20_HandlesMatchSubscription ==
    /\ isSubscribed <=> (documentChannel # NoChannel /\ regulationChannel # NoChannel)
    /\ \A table \in {"documents", "regulations"} : Cardinality(LiveChannels(table)) <= 1

\* C20 witness: a second pair of channels is live after the first pair was
\* torn down and the first teardown was called once more in between.
C20_Witness ==
    /\ Len(channels) = 4
    /\ isSubscribed
    /\ documentChannel = 3
    /\ regulationChannel = 4
    /\ channels[1].status = "closed"
    /\ channels[3].status = "subscribed"
    /\ \E t \in DOMAIN teardowns : teardowns[t].called

(***************************************************************************)
(* Claims about the cache and the database                                 *)
(***************************************************************************)
UniqueIds(list) == \A j, k \in DOMAIN list : list[j].id = list[k].id => j = k

\* C21: under any interleaving of fetch completions and realtime insert,
\* update and delete events for a table whose rows have unique ids, no two
\* entries of documents, and no two entries of regulations, have the same id.
C21_CachedIdsAreUnique ==
    /\ UniqueIds(remote.documents) => UniqueIds(documents)
    /\ UniqueIds(remote.regulations) => UniqueIds(regulations)

\* The cached list holds the rows of the table, each once.
SameRows(list, rows) ==
    /\ Len(list) = Len(rows)
    /\ {list[k] : k \in DOMAIN list} = {rows[k] : k \in DOMAIN rows}

\* No fetch of the table is in flight and every published change of it has
\* been delivered, under a live subscription.
Settled(op, table) ==
    /\ isSubscribed
    /\ Live(table)
    /\ \A i \in DOMAIN pending : pending[i].op # op
    /\ events[table] = <<>>

\* C24: with a live subscription, when realtime events for a table arrive
\* while a fetch of it is in flight, then once the fetch has completed and all
\* events have been delivered the cached list holds exactly the rows of the
\* remote table: no row inserted during the fetch is missing and no deleted
\* row remains.
C24_CacheMatchesTableWhenSettled ==
    Settled("fetchDocuments", "documents") => SameRows(documents, remote.documents)

(***************************************************************************)
(* Claims about the hook                                                   *)
(***************************************************************************)

\* C22: with several components using useRag() against the shared store,
\* mounting and unmounting in any order, the realtime subscription is live
\* (isSubscribed is true and both channels are held and subscribed) whenever
\* at least one consumer is mounted; it is released only when the last
\* consumer unmounts.
C22_SubscribedWhileMounted ==
    Mounted # {} =>
        /\ isSubscribed
        /\ documentChannel # NoChannel
        /\ regulationChannel # NoChannel
        /\ channels[documentChannel].status = "subscribed"
        /\ channels[regulationChannel].status = "subscribed"

(***************************************************************************)
(* Claims about the validator and the renderer together                    *)
(***************************************************************************)
\* The element tree holds the unknown-component placeholder somewhere.
RECURSIVE HasPlaceholder(_)
HasPlaceholder(element) ==
    CASE element.tag = "div" -> element.className = "text-red-500"
      [] element.tag = "Card" ->
            HasPlaceholder(element.content) \/ HasPlaceholder(element.footer)
      [] element.tag = "Dialog" ->
            HasPlaceholder(element.trigger) \/ HasPlaceholder(element.content)
      [] OTHER -> FALSE

\* C23: for every component tree on which validate returns valid = true,
\* rendering it produces no unknown-component placeholder anywhere in the
\* output: not for the root, and not for a component nested as a card's
\* content or footer or as a dialog's content or trigger.
C23_ValidRendersWithoutPlaceholder ==
    (result.valid /\ output # NoOutput) => ~HasPlaceholder(output)
====
